---- MODULE Spec2Model ----
(***************************************************************************)
(* A model of src/app.py: the /convert handler (validation, the bounded    *)
(* retry loop around the two yt_dlp calls, the backoff), the background    *)
(* deleter started by delete_file_later, and the /download handler.        *)
(*                                                                         *)
(* Strings the code computes on (titles, file names, formats, error        *)
(* texts) are sequences of one-character strings, so that re.sub, slicing, *)
(* str.lower, the "in" substring test and secure_filename are computed     *)
(* character by character.                                                 *)
(***************************************************************************)
EXTENDS Integers, Sequences, FiniteSets, TLC

(***************************************************************************)
(* Bounds of the model.                                                    *)
(***************************************************************************)
\* number of /convert requests the model follows (they may run concurrently)
MaxRequests == 2
\* longest title / requested file name drawn character by character
MaxNameLen == 2
\* the longest run of drawn characters in a video title
MaxTitleLen == 2

(***************************************************************************)
(* Program constants.                                                      *)
(***************************************************************************)
MAX_DURATION_SECONDS == 150 * 60
MAX_FILENAME_LENGTH == 128
max_retries == 3
INITIAL_RETRY_DELAY == 5
REAPER_DELAY == 600

(***************************************************************************)
(* Characters and strings.                                                 *)
(***************************************************************************)
UpperLetters ==
  << "A", "B", "C", "D", "E", "F", "G", "H", "I", "J", "K", "L", "M",
     "N", "O", "P", "Q", "R", "S", "T", "U", "V", "W", "X", "Y", "Z" >>

LowerLetters ==
  << "a", "b", "c", "d", "e", "f", "g", "h", "i", "j", "k", "l", "m",
     "n", "o", "p", "q", "r", "s", "t", "u", "v", "w", "x", "y", "z" >>

Digits == { "0", "1", "2", "3", "4", "5", "6", "7", "8", "9" }

Range(s) == { s[i] : i \in DOMAIN s }

Min(a, b) == IF a <= b THEN a ELSE b

\* str.lower() on one character
LowerChar(c) ==
  IF \E i \in DOMAIN UpperLetters : UpperLetters[i] = c
  THEN LowerLetters[CHOOSE i \in DOMAIN UpperLetters : UpperLetters[i] = c]
  ELSE c

\* str.lower()
Lower(s) == [ i \in DOMAIN s |-> LowerChar(s[i]) ]

\* Python's  sub in s  on strings
Contains(s, sub) ==
  \E i \in 0 .. (Len(s) - Len(sub)) :
     \A j \in 1 .. Len(sub) : s[i + j] = sub[j]

\* the character class of the re.sub in sanitize_filename:  [\\/*?:"<>|]
ForbiddenChars == { "\\", "/", "*", "?", ":", "\"", "<", ">", "|" }

\* sanitize_filename with the truncation left out (a seeded fault)
sanitize_filename_notrunc(title) ==
  [ i \in DOMAIN title |-> IF title[i] \in ForbiddenChars THEN "_" ELSE title[i] ]

sanitize_filename(title) ==
  LET clean == [ i \in DOMAIN title |->
                   IF title[i] \in ForbiddenChars THEN "_" ELSE title[i] ]
  IN  SubSeq(clean, 1, Min(Len(clean), MAX_FILENAME_LENGTH))

(***************************************************************************)
(* werkzeug.utils.secure_filename, as the two handlers call it (POSIX:     *)
(* os.sep is "/", os.path.altsep is None, no Windows device names).        *)
(***************************************************************************)
\* the characters the model draws that are not ASCII, with what
\* unicodedata.normalize("NFKD", .).encode("ascii", "ignore") leaves of them
NonAscii == { "U+00E9", "U+65E5" }

AsciiFold(c) ==
  IF c = "U+00E9" THEN << "e" >>
  ELSE IF c = "U+65E5" THEN << >>
  ELSE << c >>

NormalizeAscii(s) ==
  LET folded == SelectSeq([ i \in DOMAIN s |-> AsciiFold(s[i]) ], LAMBDA f : f # << >>)
  IN  [ i \in DOMAIN folded |-> folded[i][1] ]

Whitespace == { " " }

\* str.lstrip(chars), str.rstrip(chars), str.strip(chars)
LStrip(s, chars) ==
  LET keep == { i \in DOMAIN s : s[i] \notin chars }
  IN  IF keep = { } THEN << >>
      ELSE SubSeq(s, CHOOSE i \in keep : \A j \in keep : i <= j, Len(s))

RStrip(s, chars) ==
  LET keep == { i \in DOMAIN s : s[i] \notin chars }
  IN  IF keep = { } THEN << >>
      ELSE SubSeq(s, 1, CHOOSE i \in keep : \A j \in keep : i >= j)

Strip(s, chars) == RStrip(LStrip(s, chars), chars)

\* "_".join(s.split()) on a string with no leading or trailing whitespace:
\* every run of whitespace becomes one "_" (the last character of the run;
\* "" marks the others, which are dropped)
JoinRuns(s) ==
  SelectSeq([ i \in DOMAIN s |->
                IF s[i] \notin Whitespace THEN s[i]
                ELSE IF i < Len(s) /\ s[i + 1] \in Whitespace THEN "" ELSE "_" ],
            LAMBDA c : c # "")

\* "_".join(filename.split())
SplitJoin(s) == JoinRuns(Strip(s, Whitespace))

\* the complement of _filename_ascii_strip_re = [^A-Za-z0-9_.-]
SafeChars == Range(UpperLetters) \cup Range(LowerLetters) \cup Digits \cup { "_", ".", "-" }

KeepSafe(c) == c \in SafeChars

\* secure_filename without the separator replacement and the character
\* filter (a seeded fault: only the whitespace is handled)
secure_filename_keepsep(filename) == Strip(SplitJoin(NormalizeAscii(filename)), { ".", "_" })

\* the stages of secure_filename, innermost first: the ASCII form, os.sep
\* replaced by " ", "_".join(split()), the character filter, strip("._");
\* each stage is a bound variable, which holds its value
secure_filename(filename) ==
  CHOOSE name \in
    { Strip(kept, { ".", "_" }) :
        kept \in { SelectSeq(joined, KeepSafe) :
          joined \in { SplitJoin(nosep) :
            nosep \in { [ i \in DOMAIN ascii |-> IF ascii[i] = "/" THEN " " ELSE ascii[i] ] :
              ascii \in { NormalizeAscii(given) : given \in { filename } } } } } } : TRUE

(***************************************************************************)
(* Paths.  A path is a sequence of components, each a string; posixpath    *)
(* .normpath drops "" and "." components and lets ".." climb.              *)
(***************************************************************************)
DOWNLOAD_FOLDER == << "d", "o", "w", "n", "l", "o", "a", "d", "s" >>

DOT == << "." >>
DOTDOT == << ".", "." >>

\* name.split("/")
RECURSIVE SplitPath(_)
SplitPath(name) ==
  IF \E i \in DOMAIN name : name[i] = "/"
  THEN LET k == CHOOSE i \in DOMAIN name :
                  name[i] = "/" /\ \A j \in 1 .. (i - 1) : name[j] # "/"
       IN  << SubSeq(name, 1, k - 1) >> \o SplitPath(SubSeq(name, k + 1, Len(name)))
  ELSE << name >>

RECURSIVE NormPath(_, _)
NormPath(done, rest) ==
  IF rest = << >> THEN done
  ELSE LET c == Head(rest)
       IN  IF c = << >> \/ c = DOT THEN NormPath(done, Tail(rest))
           ELSE IF c = DOTDOT
                THEN IF done # << >> /\ done[Len(done)] # DOTDOT
                     THEN NormPath(SubSeq(done, 1, Len(done) - 1), Tail(rest))
                     ELSE NormPath(Append(done, c), Tail(rest))
                ELSE NormPath(Append(done, c), Tail(rest))

\* os.path.join(directory, name), as the file system resolves it
JoinPath(directory, name) == NormPath(<< >>, << directory >> \o SplitPath(name))

\* no path: the value of a lookup that safe_join refused
NoPath == << << "/" >> >>

\* werkzeug safe_join(directory, name): None for an absolute name and for
\* one that leaves the directory
safe_join(directory, name) ==
  LET norm == NormPath(<< >>, SplitPath(name))
  IN  IF (name # << >> /\ name[1] = "/") \/ (norm # << >> /\ norm[1] = DOTDOT)
      THEN NoPath
      ELSE << directory >> \o norm

(***************************************************************************)
(* The request body of POST /convert.                                      *)
(***************************************************************************)
MP3 == << "m", "p", "3" >>
MP4 == << "m", "p", "4" >>

\* a JSON value of the body: an absent key, null, a number or a string
Absent == [ kind |-> "absent", n |-> 0, s |-> << >> ]
Null == [ kind |-> "null", n |-> 0, s |-> << >> ]
Num(n) == [ kind |-> "int", n |-> n, s |-> << >> ]
Str(s) == [ kind |-> "str", n |-> 0, s |-> s ]

\* Python's truth value of a JSON value
Truthy(v) ==
  CASE v.kind = "str" -> v.s # << >>
    [] v.kind = "int" -> v.n # 0
    [] OTHER -> FALSE

HTTP == << "h", "t", "t", "p" >>
SCHEME_SEP == << ":", "/", "/" >>
WWW == << "w", "w", "w", "." >>
YOUTUBE_COM == << "y", "o", "u", "t", "u", "b", "e", ".", "c", "o", "m" >>
YOUTU_BE == << "y", "o", "u", "t", "u", ".", "b", "e" >>

\* the strings  ^https?://(www\.)?(youtube\.com|youtu\.be)/  accepts
UrlPrefixes ==
  { HTTP \o s \o SCHEME_SEP \o w \o h \o << "/" >> :
      s \in { << >>, << "s" >> }, w \in { << >>, WWW }, h \in { YOUTUBE_COM, YOUTU_BE } }

IsPrefix(p, s) == Len(p) <= Len(s) /\ SubSeq(s, 1, Len(p)) = p

\* re.match(r'^https?://(www\.)?(youtube\.com|youtu\.be)/', url) on a string
UrlMatches(url) == \E p \in UrlPrefixes : IsPrefix(p, url)

\* a response of the service; status 0: none yet
NoResponse ==
  [ status |-> 0, error |-> "", details |-> << >>, code |-> "",
    title |-> << >>, duration |-> 0, download_name |-> << >> ]

ErrorResponse(status, error) == [ NoResponse EXCEPT !.status = status, !.error = error ]

\* an exception that leaves the view function: Flask answers 500
Unhandled == ErrorResponse(500, "Internal Server Error")

\* convert, lines 134-147: the response the checks give, NoResponse when
\* the request passes.  data.get on a JSON array, .lower() on a format that
\* is no string and re.match on a url that is no string raise.
Validate(b) ==
  IF b.json = "none" THEN ErrorResponse(400, "JSON expected")
  ELSE IF b.json = "array" THEN Unhandled
  ELSE IF b.format.kind \in { "int", "null" } THEN Unhandled
  ELSE LET file_format == Lower(IF b.format.kind = "absent" THEN MP3 ELSE b.format.s)
       IN  IF Truthy(b.url) /\ b.url.kind # "str" THEN Unhandled
           ELSE IF ~Truthy(b.url) \/ ~UrlMatches(b.url.s)
                THEN ErrorResponse(400, "Invalid YouTube URL")
                ELSE IF file_format \notin { MP3, MP4 }
                     THEN ErrorResponse(400, "Invalid format")
                     ELSE NoResponse

\* line 140, for a body that passed the checks
FileFormat(b) == Lower(IF b.format.kind = "absent" THEN MP3 ELSE b.format.s)

(***************************************************************************)
(* The Media Fetcher (yt_dlp): what a call may do.                         *)
(***************************************************************************)
BOT == << "b", "o", "t" >>
RATE_429 == << "4", "2", "9" >>

\* line 199:  "bot" in error.lower() or "429" in error
IsTransient(error) == Contains(Lower(error), BOT) \/ Contains(error, RATE_429)

Outcome(kind, text) == [ kind |-> kind, text |-> text ]

\* str(e) of the yt_dlp.utils.DownloadError a call may raise
DownloadErrorTexts ==
  { << "B", "o", "t" >>, << "x", "4", "2", "9" >>, << "4", "0", "3" >>, << "b", "o", "4", "2" >> }

\* str(e) of any other exception a call may raise
ExceptionTexts == { << "o", "s" >> }

FetcherOutcomes ==
  { Outcome("ok", << >>) }
    \cup { Outcome("DownloadError", t) : t \in DownloadErrorTexts }
    \cup { Outcome("Exception", t) : t \in ExceptionTexts }

\* str(e) of the TypeError of  None > MAX_DURATION_SECONDS
TYPE_ERROR == << "T", "y", "p", "e" >>

MEDIA == << "m", "e", "d", "i", "a" >>

(***************************************************************************)
(* One /convert request: the local state of its handler.                   *)
(*   pc: idle, extract (about to call extract_info), pacing (line 177),    *)
(*       download (about to call ydl.download), retry_dl (line 202),       *)
(*       retry_ex (line 218), done (a response was returned)               *)
(*   slept: the arguments of the time.sleep calls of lines 202 and 218     *)
(*   calls: the calls made into the Media Fetcher so far                   *)
(***************************************************************************)
NoBody == [ json |-> "", url |-> Absent, format |-> Absent ]
NoVideo == [ title |-> Absent, duration |-> Absent ]

IdleConvert ==
  [ pc |-> "idle", body |-> NoBody, video |-> NoVideo, file_format |-> << >>,
    attempt |-> 0, retry_delay |-> 0, timer |-> 0, slept |-> << >>,
    calls |-> << >>,
    title |-> << >>, duration |-> 0, output_filename |-> << >>,
    resp |-> NoResponse ]

Respond(c, response) == [ c EXCEPT !.pc = "done", !.resp = response ]

\* lines 134-152: the checks, then the loop is entered
Begin(b, v) ==
  LET c == [ IdleConvert EXCEPT !.body = b, !.video = v ]
  IN  IF Validate(b) # NoResponse
      THEN Respond(c, Validate(b))
      ELSE [ c EXCEPT !.pc = "extract", !.file_format = FileFormat(b),
                      !.attempt = 0, !.retry_delay = INITIAL_RETRY_DELAY ]

\* lines 195-213 retrying every DownloadError (a seeded fault)
OnDownloadError_retryall(c, error) ==
  IF c.attempt < max_retries - 1
  THEN [ c EXCEPT !.pc = "retry_dl", !.timer = c.retry_delay,
                  !.slept = Append(@, c.retry_delay) ]
  ELSE Respond(c, [ ErrorResponse(429, "YouTube temporary restriction")
                      EXCEPT !.code = "rate_limit" ])

\* lines 195-213 giving up one attempt early (a seeded fault)
OnDownloadError_early(c, error) ==
  IF IsTransient(error)
  THEN IF c.attempt < max_retries - 2
       THEN [ c EXCEPT !.pc = "retry_dl", !.timer = c.retry_delay,
                       !.slept = Append(@, c.retry_delay) ]
       ELSE Respond(c, [ ErrorResponse(429, "YouTube temporary restriction")
                           EXCEPT !.code = "rate_limit" ])
  ELSE Respond(c, [ ErrorResponse(400, "Download failed") EXCEPT !.details = error ])

\* lines 195-213: except yt_dlp.utils.DownloadError
OnDownloadError(c, error) ==
  IF IsTransient(error)
  THEN IF c.attempt < max_retries - 1
       THEN [ c EXCEPT !.pc = "retry_dl", !.timer = c.retry_delay,
                       !.slept = Append(@, c.retry_delay) ]
       ELSE Respond(c, [ ErrorResponse(429, "YouTube temporary restriction")
                           EXCEPT !.code = "rate_limit" ])
  ELSE Respond(c, [ ErrorResponse(400, "Download failed") EXCEPT !.details = error ])

\* lines 215-223 comparing attempt with max_retries (a seeded fault)
OnException_offbyone(c, error) ==
  IF c.attempt < max_retries
  THEN [ c EXCEPT !.pc = "retry_ex", !.timer = c.retry_delay,
                  !.slept = Append(@, c.retry_delay) ]
  ELSE Respond(c, [ ErrorResponse(500, "Internal error") EXCEPT !.details = error ])

\* lines 215-223: except Exception
OnException(c, error) ==
  IF c.attempt < max_retries - 1
  THEN [ c EXCEPT !.pc = "retry_ex", !.timer = c.retry_delay,
                  !.slept = Append(@, c.retry_delay) ]
  ELSE Respond(c, [ ErrorResponse(500, "Internal error") EXCEPT !.details = error ])

\* lines 202-204 without the doubling (a seeded fault)
AfterSleep_nodouble(c) == [ c EXCEPT !.pc = "extract", !.attempt = @ + 1 ]

\* the end of the sleep of line 202 or 218 and the continue: line 203
\* doubles retry_delay on the DownloadError path only
AfterSleep(c) ==
  [ c EXCEPT !.pc = "extract", !.attempt = @ + 1,
             !.retry_delay = IF c.pc = "retry_dl" THEN @ * 2 ELSE @ ]

\* lines 165-172 without the duration check (a seeded fault)
AfterExtract_nocheck(c, pause) ==
  LET title == sanitize_filename(IF c.video.title.kind = "absent" THEN MEDIA ELSE c.video.title.s)
  IN  [ c EXCEPT !.pc = "pacing", !.timer = pause, !.title = title,
                 !.duration = c.video.duration.n,
                 !.output_filename = title \o << "." >> \o c.file_format ]

\* lines 165-177 after extract_info returned: the duration check, the file
\* name, and the pause of line 177 begun
AfterExtract(c, pause) ==
  IF c.video.duration.kind = "null" THEN OnException(c, TYPE_ERROR)
  ELSE LET duration == IF c.video.duration.kind = "absent" THEN 0 ELSE c.video.duration.n
           title == sanitize_filename(IF c.video.title.kind = "absent" THEN MEDIA
                                      ELSE c.video.title.s)
       IN  IF duration > MAX_DURATION_SECONDS
           THEN Respond(c, ErrorResponse(400, "Video too long"))
           ELSE [ c EXCEPT !.pc = "pacing", !.timer = pause, !.title = title,
                           !.duration = duration,
                           !.output_filename = title \o << "." >> \o c.file_format ]

\* lines 189-193: the success response
Success(c) ==
  Respond(c, [ NoResponse EXCEPT !.status = 200, !.title = c.title,
                                 !.duration = c.duration,
                                 !.download_name = secure_filename(c.output_filename) ])

\* line 172
OutputPath(c) == JoinPath(DOWNLOAD_FOLDER, c.output_filename)

(***************************************************************************)
(* The file system, the deleters and the /download handler.                *)
(***************************************************************************)
APP_PY == << "a", "p", "p", ".", "p", "y" >>

\* a file: its path and the request whose download wrote it (0: not a
\* download)
File(path, by) == [ path |-> path, by |-> by ]

Exists(fs, path) == \E f \in fs : f.path = path

\* a download writing path: the file is created or overwritten
WriteFile(fs, path, by) == { f \in fs : f.path # path } \cup { File(path, by) }

\* os.remove(path)
RemoveFile(fs, path) == { f \in fs : f.path # path }

\* ydl.download([url]) with outtmpl = path having returned: the file systems
\* it may leave.  get_ydl_opts (lines 82-117) sets no "overwrites" option:
\* yt_dlp then takes a file it finds at path as already downloaded and
\* leaves it as it is; it writes the file when it finds none, also when
\* another download creates one meanwhile.
Downloaded(fs, path, by) ==
  { WriteFile(fs, path, by) } \cup { g \in { fs } : Exists(fs, path) }

\* the thread of delete_file_later:
\*   pc: off (never started), sleep (line 73), remove (os.path.exists was
\*       true, os.remove is next), done
\*   log: what the thread logged: "deleted" (line 77), "error" (line 79)
NoReaper == [ pc |-> "off", path |-> << >>, remaining |-> 0, log |-> "" ]

\* line 187 passing output_filename where output_path is meant (a seeded
\* fault)
StartReaper_barename(path, delay) ==
  [ pc |-> "sleep", path |-> << path[Len(path)] >>, remaining |-> delay, log |-> "" ]

\* line 80: the thread is started
StartReaper(path, delay) == [ pc |-> "sleep", path |-> path, remaining |-> delay, log |-> "" ]

\* the /download handler:
\*   pc: idle, send (send_from_directory found the file, send_file is about
\*       to open it), done
IdleDownload ==
  [ pc |-> "idle", filename |-> << >>, safe_filename |-> << >>, path |-> NoPath,
    status |-> 0, error |-> "", served |-> -1 ]

Requests == 1 .. MaxRequests

VARIABLES
  cv,      \* cv[r]: the handler of /convert request r
  files,   \* the files on disk
  reaper,  \* reaper[r]: the deleter request r started
  dl       \* the handler of the current /download request

vars == << cv, files, reaper, dl >>

Init ==
  /\ cv = [ r \in Requests |-> IdleConvert ]
  /\ files = { File(<< APP_PY >>, 0) }
  /\ reaper = [ r \in Requests |-> NoReaper ]
  /\ dl = IdleDownload

(***************************************************************************)
(* /convert                                                                *)
(***************************************************************************)
\* a request arrives and is checked (lines 134-152); requests are numbered
\* in the order they arrive
ConvertBegin(r, bodies, videos) ==
  /\ cv[r].pc = "idle"
  /\ \A q \in Requests : q < r => cv[q].pc # "idle"
  /\ \E b \in bodies, v \in videos : cv' = [ cv EXCEPT ![r] = Begin(b, v) ]
  /\ UNCHANGED << files, reaper, dl >>

\* the record of a call into the Media Fetcher: the attempt it was made in,
\* which call it was, and how it ended
Called(c, step, o) ==
  [ c EXCEPT !.calls = Append(@, [ attempt |-> c.attempt, step |-> step,
                                   kind |-> o.kind, text |-> o.text ]) ]

\* random.uniform(1, 3) of line 175, in whole seconds
PacingDelays == { 1, 3 }

\* lines 157-177: extract_info(url, download=False) returns or raises
ExtractInfo(r, outcomes, pauses) ==
  /\ cv[r].pc = "extract"
  /\ \E o \in outcomes :
       LET c == Called(cv[r], "extract", o)
       IN  \/ /\ o.kind = "ok"
              /\ \E pause \in pauses : cv' = [ cv EXCEPT ![r] = AfterExtract(c, pause) ]
           \/ /\ o.kind = "DownloadError"
              /\ cv' = [ cv EXCEPT ![r] = OnDownloadError(c, o.text) ]
           \/ /\ o.kind = "Exception"
              /\ cv' = [ cv EXCEPT ![r] = OnException(c, o.text) ]
  /\ UNCHANGED << files, reaper, dl >>

\* line 177: the pause is over
Pace(r) ==
  /\ cv[r].pc = "pacing"
  /\ cv[r].timer = 0
  /\ cv' = [ cv EXCEPT ![r].pc = "download" ]
  /\ UNCHANGED << files, reaper, dl >>

\* lines 180-193: ydl.download([url]) returns, the file being at
\* output_path, or raises; on success the deleter is started and the response returned
Download(r, outcomes) ==
  /\ cv[r].pc = "download"
  /\ \E o \in outcomes :
       LET c == Called(cv[r], "download", o)
       IN  \/ /\ o.kind = "ok"
              /\ files' \in Downloaded(files, OutputPath(c), r)
              /\ reaper' = [ reaper EXCEPT ![r] = StartReaper(OutputPath(c), REAPER_DELAY) ]
              /\ cv' = [ cv EXCEPT ![r] = Success(c) ]
           \/ /\ o.kind = "DownloadError"
              /\ cv' = [ cv EXCEPT ![r] = OnDownloadError(c, o.text) ]
              /\ UNCHANGED << files, reaper >>
           \/ /\ o.kind = "Exception"
              /\ cv' = [ cv EXCEPT ![r] = OnException(c, o.text) ]
              /\ UNCHANGED << files, reaper >>
  /\ UNCHANGED dl

\* lines 202-204 and 218-219: the sleep is over, the next attempt begins
Retry(r) ==
  /\ cv[r].pc \in { "retry_dl", "retry_ex" }
  /\ cv[r].timer = 0
  /\ cv' = [ cv EXCEPT ![r] = AfterSleep(cv[r]) ]
  /\ UNCHANGED << files, reaper, dl >>

(***************************************************************************)
(* delete_file_later                                                       *)
(***************************************************************************)
\* lines 73-75 deleting only a file that was served (a seeded fault)
ReaperChecked_ifserved(rp, fs) ==
  IF Exists(fs, rp.path) /\ dl.status = 200
  THEN [ rp EXCEPT !.pc = "remove" ]
  ELSE [ rp EXCEPT !.pc = "done" ]

\* lines 73-75: the sleep is over and os.path.exists is evaluated
ReaperChecked(rp, fs) ==
  IF Exists(fs, rp.path)
  THEN [ rp EXCEPT !.pc = "remove" ]
  ELSE [ rp EXCEPT !.pc = "done" ]

ReaperCheck(r) ==
  /\ reaper[r].pc = "sleep"
  /\ reaper[r].remaining = 0
  /\ reaper' = [ reaper EXCEPT ![r] = ReaperChecked(reaper[r], files) ]
  /\ UNCHANGED << cv, files, dl >>

\* lines 76-79: os.remove; FileNotFoundError when the file has gone since
\* the check, caught and logged by line 79
ReaperRemove(r) ==
  /\ reaper[r].pc = "remove"
  /\ IF Exists(files, reaper[r].path)
     THEN /\ files' = RemoveFile(files, reaper[r].path)
          /\ reaper' = [ reaper EXCEPT ![r].pc = "done", ![r].log = "deleted" ]
     ELSE /\ files' = files
          /\ reaper' = [ reaper EXCEPT ![r].pc = "done", ![r].log = "error" ]
  /\ UNCHANGED << cv, dl >>

(***************************************************************************)
(* /download/<filename>                                                    *)
(***************************************************************************)
\* what send_from_directory does for the name it is given: NotFound, which
\* is no FileNotFoundError and so is caught by line 239, when safe_join
\* refuses the name or the path is no file; else send_file is next
Lookup(filename, safe_filename, fs) ==
  LET path == safe_join(DOWNLOAD_FOLDER, safe_filename)
      d == [ IdleDownload EXCEPT !.filename = filename,
                                 !.safe_filename = safe_filename, !.path = path ]
  IN  IF path = NoPath \/ ~Exists(fs, path)
      THEN [ d EXCEPT !.pc = "done", !.status = 500, !.error = "Download error" ]
      ELSE [ d EXCEPT !.pc = "send" ]

\* names a client may ask /download for whatever was converted
ProbeNames == { << ".", ".", "/", "a", "p", "p", ".", "p", "y" >>, << "a", ".", "m", "p", "3" >> }

\* the names a client learns from the service: the names the responses
\* gave and the names the files were stored under
LearnedNames ==
  { cv[r].resp.download_name : r \in { q \in Requests : cv[q].resp.status = 200 } }
    \cup { cv[r].output_filename : r \in { q \in Requests : cv[q].resp.status = 200 } }

\* lines 226-235, 239-241
DownloadBegin(names) ==
  /\ dl.pc \in { "idle", "done" }
  /\ \E filename \in names \cup LearnedNames : dl' = Lookup(filename, secure_filename(filename), files)
  /\ UNCHANGED << cv, files, reaper >>

\* send_file opens the file: the stream, or FileNotFoundError when a
\* deleter removed it since the lookup (lines 236-238)
DownloadSend ==
  /\ dl.pc = "send"
  /\ IF Exists(files, dl.path)
     THEN dl' = [ dl EXCEPT !.pc = "done", !.status = 200,
                            !.served = (CHOOSE f \in files : f.path = dl.path).by ]
     ELSE dl' = [ dl EXCEPT !.pc = "done", !.status = 404,
                            !.error = "File expired or not found" ]
  /\ UNCHANGED << cv, files, reaper >>

(***************************************************************************)
(* Time.  Timers hold the seconds left of a time.sleep; time passes up to  *)
(* the next timer to run out.  A thread whose sleep is over runs when the  *)
(* scheduler lets it, so time may pass before it does.                     *)
(***************************************************************************)
Timers ==
  { cv[r].timer : r \in Requests } \cup { reaper[r].remaining : r \in Requests }

Running == { t \in Timers : t > 0 }

NextTimeout == CHOOSE t \in Running : \A u \in Running : t <= u

\* a stretch of time with no event in it
IdleSteps == { 300 }

Advance(idle) ==
  /\ Running # { }
  /\ \E d \in { NextTimeout } \cup { i \in idle : i < NextTimeout } :
       /\ cv' = [ r \in Requests |->
                    [ cv[r] EXCEPT !.timer = IF @ > 0 THEN @ - d ELSE 0 ] ]
       /\ reaper' = [ r \in Requests |->
                    [ reaper[r] EXCEPT !.remaining = IF @ > 0 THEN @ - d ELSE 0 ] ]
  /\ UNCHANGED << files, dl >>

(***************************************************************************)
(* The inputs drawn.                                                       *)
(***************************************************************************)
\* https://youtu.be/
GOOD_URL == HTTP \o << "s" >> \o SCHEME_SEP \o YOUTU_BE \o << "/" >>
\* http://www.youtube.com/v
GOOD_URL_WWW == HTTP \o SCHEME_SEP \o WWW \o YOUTUBE_COM \o << "/", "v" >>
\* https://youtube.com.evil/
BAD_URL_HOST == HTTP \o << "s" >> \o SCHEME_SEP \o YOUTUBE_COM \o << ".", "e", "v", "i", "l", "/" >>
\* ftp://youtu.be/
BAD_URL_SCHEME == << "f", "t", "p" >> \o SCHEME_SEP \o YOUTU_BE \o << "/" >>

UrlValues == { Absent, Null, Str(<< >>), Num(5), Str(GOOD_URL), Str(GOOD_URL_WWW),
               Str(BAD_URL_HOST), Str(BAD_URL_SCHEME) }

FormatValues == { Absent, Null, Num(5), Str(<< "M", "p", "4" >>), Str(<< "w", "a", "v" >>) }

Bodies ==
  { [ json |-> "none", url |-> Absent, format |-> Absent ],
    [ json |-> "array", url |-> Absent, format |-> Absent ] }
    \cup { [ json |-> "object", url |-> u, format |-> f ] : u \in UrlValues, f \in FormatValues }

Titles == { Absent, Str(<< "a" >>), Str(<< "/", "a" >>), Str(<< "?", "a" >>) }

Durations == { Absent, Null, Num(MAX_DURATION_SECONDS), Num(MAX_DURATION_SECONDS + 1) }

Videos == { [ title |-> t, duration |-> d ] : t \in Titles, d \in Durations }

\* the steps of the service, for the requests followed and the inputs drawn
Step(followed, bodies, videos, outcomes, pauses, idle, names) ==
  \/ \E r \in followed : ConvertBegin(r, bodies, videos)
  \/ \E r \in followed : ExtractInfo(r, outcomes, pauses)
  \/ \E r \in followed : Pace(r)
  \/ \E r \in followed : Download(r, outcomes)
  \/ \E r \in followed : Retry(r)
  \/ \E r \in followed : ReaperCheck(r)
  \/ \E r \in followed : ReaperRemove(r)
  \/ DownloadBegin(names)
  \/ DownloadSend
  \/ Advance(idle)

(***************************************************************************)
(* Spec: one /convert request with every input drawn, its deleter, and the *)
(* /download requests of a client.                                         *)
(***************************************************************************)
Next == Step({ 1 }, Bodies, Videos, FetcherOutcomes, PacingDelays, IdleSteps, ProbeNames)

Spec == Init /\ [][Next]_vars

(***************************************************************************)
(* LoopSpec: one valid /convert request and every outcome of every call    *)
(* into yt_dlp, with the scheduling of the handler's thread: a call        *)
(* returns or raises (socket_timeout is set, lines 162 and 90), a sleep    *)
(* ends and time passes.                                                   *)
(***************************************************************************)
LoopBodies == { [ json |-> "object", url |-> Str(GOOD_URL_WWW), format |-> Str(MP4) ] }

LoopVideos ==
  { [ title |-> Str(<< "a" >>), duration |-> d ] :
      d \in { Absent, Null, Num(MAX_DURATION_SECONDS + 1) } }

\* the next step of the thread that handles request r
HandlerStep(r) ==
  \/ ExtractInfo(r, FetcherOutcomes, { 1 })
  \/ Pace(r)
  \/ Download(r, FetcherOutcomes)
  \/ Retry(r)

LoopNext == Step({ 1 }, LoopBodies, LoopVideos, FetcherOutcomes, { 1 }, { }, { })

LoopSpec ==
  /\ Init /\ [][LoopNext]_vars
  /\ WF_vars(Advance({ }))
  /\ WF_vars(HandlerStep(1))

(***************************************************************************)
(* RaceSpec: MaxRequests /convert requests running concurrently, all valid *)
(* and for videos whose titles sanitize to the same name, their deleters,  *)
(* and the /download requests of a client.                                 *)
(***************************************************************************)
RaceBodies == { [ json |-> "object", url |-> Str(GOOD_URL), format |-> Absent ] }

RaceVideos ==
  { [ title |-> t, duration |-> Num(MAX_DURATION_SECONDS) ] :
      t \in { Str(<< "a", "/" >>), Str(<< "a", "?" >>) } }

RaceOutcomes == { Outcome("ok", << >>), Outcome("DownloadError", << "B", "o", "t" >>) }

RaceNext == Step(Requests, RaceBodies, RaceVideos, RaceOutcomes, { 1 }, { }, ProbeNames)

RaceSpec == Init /\ [][RaceNext]_vars

(***************************************************************************)
(* FairRaceSpec: RaceSpec where time passes and every deleter thread that  *)
(* can run does run (the process keeps serving, so its daemon threads      *)
(* live).                                                                  *)
(***************************************************************************)
FairRaceSpec ==
  /\ RaceSpec
  /\ WF_vars(Advance({ }))
  /\ \A r \in Requests : WF_vars(ReaperCheck(r)) /\ WF_vars(ReaperRemove(r))

(***************************************************************************)
(* ServeSpec: one valid /convert request, its deleter, and                 *)
(* /download requests for every name of up to MaxNameLen characters.       *)
(***************************************************************************)
NameChars == { "a", ".", "/", " ", "?", "U+00E9" }

RECURSIVE NamesUpTo(_)
NamesUpTo(n) ==
  IF n = 0 THEN { << >> }
  ELSE LET shorter == NamesUpTo(n - 1)
       IN  shorter \cup { Append(s, c) : s \in shorter, c \in NameChars }

AllNames == NamesUpTo(MaxNameLen)

ServeVideos == { [ title |-> Str(<< "a" >>), duration |-> Absent ] }

ServeNext ==
  Step({ 1 }, RaceBodies, ServeVideos, RaceOutcomes, { 1 }, { },
       AllNames \cup ProbeNames)

ServeSpec == Init /\ [][ServeNext]_vars

(***************************************************************************)
(* TitleSpec: one valid /convert request for a video whose title is drawn  *)
(* from every string of up to MaxTitleLen characters of the class of       *)
(* sanitize_filename and a letter, alone and at either end of a run of     *)
(* letters that reaches MAX_FILENAME_LENGTH.                               *)
(***************************************************************************)
TitleChars == { "\\", "/", "*", "?", ":", "\"", "<", ">", "|", "a" }

Pad(n) == [ i \in 1 .. n |-> "a" ]

RECURSIVE TitlesUpTo(_)
TitlesUpTo(n) ==
  IF n = 0 THEN { << >> }
  ELSE LET shorter == TitlesUpTo(n - 1)
       IN  shorter \cup { Append(s, c) : s \in shorter, c \in TitleChars }

ShortTitles == TitlesUpTo(MaxTitleLen)

LongTitles ==
  { s \o Pad(MAX_FILENAME_LENGTH - 1) : s \in ShortTitles }
    \cup { Pad(MAX_FILENAME_LENGTH - 1) \o s : s \in ShortTitles }

TitleVideos ==
  { [ title |-> Str(t), duration |-> Absent ] : t \in ShortTitles \cup LongTitles }

TitleNext == Step({ 1 }, RaceBodies, TitleVideos, RaceOutcomes, { 1 }, { }, { })

TitleSpec == Init /\ [][TitleNext]_vars

(***************************************************************************)
(* The properties.                                                         *)
(***************************************************************************)
\* a transient signature, as the specification words it: a downloader
\* error whose text holds "bot", in any letter case, or "429"
TransientSignature(call) ==
  /\ call.kind = "DownloadError"
  /\ \/ Contains(Lower(call.text), << "b", "o", "t" >>)
     \/ Contains(call.text, << "4", "2", "9" >>)

\* the calls request r made in attempt a (0, 1, 2)
CallsOf(r, a) == { i \in DOMAIN cv[r].calls : cv[r].calls[i].attempt = a }

\* attempt a of request r failed with a transient signature
FailedTransient(r, a) ==
  \E i \in CallsOf(r, a) : TransientSignature(cv[r].calls[i])

Answered(r) == cv[r].pc = "done"

RateLimited(r) ==
  /\ cv[r].resp.status = 429
  /\ cv[r].resp.code = "rate_limit"

\* C1: when every Media Fetcher call of a Convert failed with a transient
\* signature, the Convert has answered only after exactly 3 attempts (one
\* call each), with 429 and code "rate_limit"; and a Convert that answers
\* 429 is in its 3rd attempt, which failed with a transient signature.
C1_AlwaysTransient ==
  \A r \in Requests :
    /\ ( /\ Answered(r)
         /\ cv[r].calls # << >>
         /\ \A i \in DOMAIN cv[r].calls : TransientSignature(cv[r].calls[i]) )
       => ( /\ Len(cv[r].calls) = 3
            /\ \A a \in 0 .. 2 : Cardinality(CallsOf(r, a)) = 1
            /\ cv[r].attempt = 2
            /\ RateLimited(r) )
    /\ cv[r].resp.status = 429
       => ( /\ cv[r].attempt = 2
            /\ \A a \in 0 .. 2 : CallsOf(r, a) # { }
            /\ FailedTransient(r, 2) )

C1_Witness ==
  \E r \in Requests :
    /\ RateLimited(r)
    /\ Len(cv[r].calls) = 3
    /\ \A i \in DOMAIN cv[r].calls : TransientSignature(cv[r].calls[i])

\* the calls of attempt a of request r all returned, the download included
Succeeded(r, a) ==
  /\ \E i \in CallsOf(r, a) : cv[r].calls[i].step = "download"
  /\ \A i \in CallsOf(r, a) : cv[r].calls[i].kind = "ok"

RECURSIVE Sum(_)
Sum(s) == IF s = << >> THEN 0 ELSE Head(s) + Sum(Tail(s))

\* C2: when the Media Fetcher failed with a transient signature in the 1st
\* and the 2nd attempt and succeeded in the 3rd, the Convert answered
\* success in the 3rd attempt, having slept 5 s and then 10 s: a backoff of
\* 15 s in all.
C2_TwoTransientThenSuccess ==
  \A r \in Requests :
    ( FailedTransient(r, 0) /\ FailedTransient(r, 1) /\ Succeeded(r, 2) )
    => ( /\ Answered(r)
         /\ cv[r].resp.status = 200
         /\ cv[r].attempt = 2
         /\ cv[r].slept = << 5, 10 >>
         /\ Sum(cv[r].slept) >= 15 )

C2_Witness ==
  \E r \in Requests :
    /\ FailedTransient(r, 0) /\ FailedTransient(r, 1) /\ Succeeded(r, 2)
    /\ cv[r].resp.status = 200

\* the metadata of request r reported more than 9000 seconds
ReportedTooLong(r) ==
  /\ \E i \in DOMAIN cv[r].calls :
       cv[r].calls[i].step = "extract" /\ cv[r].calls[i].kind = "ok"
  /\ cv[r].video.duration.kind = "int"
  /\ cv[r].video.duration.n > 9000

\* C3: once the metadata of a valid request has reported a duration over
\* 9000 s, the Convert has answered 400 "Video too long"; that request made
\* no fetch/transcode call in any attempt, made no call after the one that
\* reported the duration, and started no deleter.
C3_DurationExceeded ==
  \A r \in Requests :
    ReportedTooLong(r)
    => ( /\ Answered(r)
         /\ cv[r].resp.status = 400
         /\ cv[r].resp.error = "Video too long"
         /\ \A i \in DOMAIN cv[r].calls : cv[r].calls[i].step # "download"
         /\ cv[r].calls[Len(cv[r].calls)].kind = "ok"
         /\ reaper[r].pc = "off" )

C3_Witness ==
  \E r \in Requests :
    /\ ReportedTooLong(r)
    /\ cv[r].resp.error = "Video too long"
    /\ cv[r].attempt > 0

\* the url of body b is missing or is a string the host pattern rejects
UrlRejected(b) ==
  /\ b.json = "object"
  /\ \/ b.url.kind \in { "absent", "null" }
     \/ b.url.kind = "str" /\ ~UrlMatches(b.url.s)

\* C4: a request whose url is missing or does not match the host pattern is
\* answered 400 and no Media Fetcher call is made for it, whatever its
\* format field holds.
C4_BadUrlRejected ==
  \A r \in Requests :
    ( cv[r].pc # "idle" /\ UrlRejected(cv[r].body) )
    => ( /\ Answered(r)
         /\ cv[r].resp.status = 400
         /\ cv[r].calls = << >> )

\* C9: a downloader error that carries no transient signature is the last
\* Media Fetcher call of its Convert, in whichever attempt it occurs, and
\* the Convert has answered 400 with the error text as details.
C9_FatalNotRetried ==
  \A r \in Requests :
    \A i \in DOMAIN cv[r].calls :
      ( cv[r].calls[i].kind = "DownloadError" /\ ~TransientSignature(cv[r].calls[i]) )
      => ( /\ i = Len(cv[r].calls)
           /\ Answered(r)
           /\ cv[r].attempt = cv[r].calls[i].attempt
           /\ cv[r].resp.status = 400
           /\ cv[r].resp.error = "Download failed"
           /\ cv[r].resp.details = cv[r].calls[i].text )

C9_Witness ==
  \E r \in Requests :
    /\ cv[r].resp.error = "Download failed"
    /\ cv[r].attempt = 2
    /\ cv[r].calls[Len(cv[r].calls)].step = "download"

\* C5: for a Convert that answered success, a GET on the path of its
\* download_url makes Serve look up the file name under which the artifact
\* was stored, so that it streams that artifact.
C5_UrlServesArtifact ==
  \A r \in Requests :
    ( /\ cv[r].resp.status = 200
      /\ dl.pc # "idle"
      /\ dl.filename = cv[r].resp.download_name )
    => ( /\ dl.safe_filename = cv[r].output_filename
         /\ dl.path = OutputPath(cv[r]) )

\* C6: whatever the interleaving of the deleters scheduled for one path, no
\* deleter attempts to remove a file another deleter has already removed:
\* no os.remove of a deleter fails.
C6_NoFailedRemove ==
  \A r \in Requests : reaper[r].log # "error"

\* C7: a /download request that found no artifact to stream, because it
\* never existed or because a deleter removed it, is answered 404.
C7_AbsentIsNotFound ==
  ( dl.pc = "done" /\ dl.status # 200 ) => dl.status = 404

\* C8: for every requested file name, Serve looks up a name with no path
\* separator in it that is neither "." nor "..", the path it looks up is
\* that name directly inside the download directory (the directory itself
\* for an empty name), and a file it streams lies directly inside the
\* download directory.
C8_ServeStaysInside ==
  dl.pc # "idle"
  => ( /\ "/" \notin Range(dl.safe_filename)
       /\ dl.safe_filename \notin { DOT, DOTDOT }
       /\ dl.path = IF dl.safe_filename = << >>
                    THEN << DOWNLOAD_FOLDER >>
                    ELSE << DOWNLOAD_FOLDER, dl.safe_filename >>
       /\ dl.status = 200
          => ( /\ Len(dl.path) = 2
               /\ dl.path[1] = DOWNLOAD_FOLDER
               /\ dl.served # 0 ) )

C8_Witness ==
  /\ dl.pc = "done"
  /\ dl.filename = << ".", ".", "/", "a", "p", "p", ".", "p", "y" >>
  /\ Exists(files, JoinPath(DOWNLOAD_FOLDER, dl.filename))
  /\ dl.status # 200

\* a deleter is armed: started and not yet through
Armed(r) == reaper[r].pc \in { "sleep", "remove" }

\* C10: every deleter a successful Convert started runs to its end, whether
\* or not the file was ever downloaded, and when it ends the artifact path
\* is absent from the download directory.
C10_ReaperFires ==
  \A r \in Requests :
    Armed(r) ~> ( reaper[r].pc = "done" /\ ~Exists(files, reaper[r].path) )

C10_Witness ==
  \E r \in Requests :
    /\ cv[r].resp.status = 200
    /\ reaper[r].pc = "done"
    /\ reaper[r].log = "deleted"
    /\ dl.status # 200
    /\ ~Exists(files, reaper[r].path)

\* C11: a Convert that ends with an error that is no downloader error
\* answers 500 with a generic message only: no 500 response carries the
\* text of the exception.
C11_GenericInternalError ==
  \A r \in Requests :
    cv[r].resp.status = 500 => cv[r].resp.details = << >>

\* the title of request r has been through sanitize_filename
Sanitized(r) == cv[r].output_filename # << >> /\ cv[r].video.title.kind = "str"

\* C12: the title sanitize_filename returned holds none of the characters
\* \ / * ? : " < > |, is at most 128 characters long, and is the title
\* given, character by character, with "_" wherever one of those stood.
C12_SanitizedTitle ==
  \A r \in Requests :
    Sanitized(r)
    => LET given == cv[r].video.title.s
           clean == cv[r].title
       IN  /\ Len(clean) <= 128
           /\ Len(clean) <= Len(given)
           /\ \A i \in DOMAIN clean :
                /\ clean[i] \notin { "\\", "/", "*", "?", ":", "\"", "<", ">", "|" }
                /\ clean[i] = IF given[i] \in { "\\", "/", "*", "?", ":", "\"", "<", ">", "|" }
                              THEN "_" ELSE given[i]

C12_Witness ==
  \E r \in Requests :
    /\ Sanitized(r)
    /\ Len(cv[r].video.title.s) = 129
    /\ cv[r].video.title.s[128] = "/"
    /\ cv[r].video.title.s[129] = "|"
    /\ Len(cv[r].title) = 128
    /\ cv[r].title[128] = "_"

\* requests r and q are for titles that sanitize to the same string and for
\* the same format
SameArtifact(r, q) ==
  /\ cv[r].output_filename # << >>
  /\ cv[q].output_filename # << >>
  /\ cv[r].title = cv[q].title
  /\ cv[r].file_format = cv[q].file_format

\* C13: two conversions whose titles sanitize to the same string and that
\* ask for the same format have the same artifact path, and when one of
\* them answers success while the artifact of the other is there, the file
\* at that path is from then on the one it fetched: the earlier artifact is
\* overwritten.
C13_CollisionOverwrites ==
  [][ \A r, q \in Requests :
        ( r # q /\ SameArtifact(r, q) )
        => ( /\ OutputPath(cv[r]) = OutputPath(cv[q])
             /\ ( /\ cv[r].pc = "download"
                  /\ cv'[r].resp.status = 200
                  /\ File(OutputPath(cv[q]), q) \in files )
                => File(OutputPath(cv[r]), r) \in files' ) ]_vars

\* C14: within one Convert the pause before the 2nd attempt is 5 s and the
\* pause before the 3rd attempt is 10 s, whatever errors caused the retries.
C14_BackoffDoubles ==
  \A r \in Requests :
    /\ Len(cv[r].slept) >= 1 => cv[r].slept[1] = 5
    /\ Len(cv[r].slept) >= 2 => cv[r].slept[2] = 10

\* the rules of the Validator, as the specification words them
UrlAccepted(b) == b.url.kind = "str" /\ UrlMatches(b.url.s)

FormatAccepted(b) ==
  \/ b.format.kind = "absent"
  \/ b.format.kind = "str" /\ Lower(b.format.s) \in { MP3, MP4 }

\* C15: for a body that is not JSON or is a JSON object, the outcome of the
\* checks is the failure of the first violated rule in the order not JSON,
\* url, format, or else the request is accepted with its format; no other
\* outcome occurs.
C15_ValidationOrder ==
  \A r \in Requests :
    ( cv[r].pc # "idle" /\ cv[r].body.json \in { "none", "object" } )
    => LET b == cv[r].body
       IN  IF b.json = "none"
           THEN cv[r].resp = ErrorResponse(400, "JSON expected")
           ELSE IF ~UrlAccepted(b)
                THEN cv[r].resp = ErrorResponse(400, "Invalid YouTube URL")
                ELSE IF ~FormatAccepted(b)
                     THEN cv[r].resp = ErrorResponse(400, "Invalid format")
                     ELSE cv[r].file_format \in { MP3, MP4 }

\* C16: while the 600 s since a successful Convert started its deleter have
\* not elapsed, the artifact it returned is in the download directory,
\* whatever other conversions and deleters do.
C16_KeptForRetention ==
  \A r \in Requests :
    ( /\ cv[r].resp.status = 200
      /\ reaper[r].pc = "sleep"
      /\ reaper[r].remaining > 0 )
    => Exists(files, reaper[r].path)

\* request r has started a deleter
ReaperStarted(r) == reaper[r].pc # "off"

\* the deleter of r was started for the artifact of r after a fetch/transcode
\* call that returned
StartedForArtifact(r) ==
  /\ reaper[r].path = OutputPath(cv[r])
  /\ cv[r].calls # << >>
  /\ cv[r].calls[Len(cv[r].calls)].step = "download"
  /\ cv[r].calls[Len(cv[r].calls)].kind = "ok"

\* C17: a Convert has started a deleter exactly when it has answered
\* success, hence none while its attempts fail nor when it answers an
\* error; the deleter is for the artifact path of that conversion and is
\* started in the step in which the fetch/transcode call returns, with the
\* full delay; once started it is never started again.
C17_ReaperOncePerSuccess ==
  /\ [] ( \A r \in Requests :
            /\ ReaperStarted(r) <=> cv[r].resp.status = 200
            /\ ReaperStarted(r) => StartedForArtifact(r) )
  /\ [][ \A r \in Requests :
           /\ ( ~ReaperStarted(r) /\ ReaperStarted(r)' )
              => ( /\ cv[r].pc = "download"
                   /\ reaper'[r].pc = "sleep"
                   /\ reaper'[r].remaining = 600 )
           /\ ReaperStarted(r)
              => ( /\ ReaperStarted(r)'
                   /\ reaper'[r].path = reaper[r].path
                   /\ reaper'[r].remaining <= reaper[r].remaining
                   /\ reaper[r].pc # "sleep" => reaper'[r].pc # "sleep" ) ]_vars

C17_Witness ==
  \E r \in Requests :
    /\ cv[r].resp.status = 200
    /\ cv[r].attempt = 2
    /\ \E i \in DOMAIN cv[r].calls :
         cv[r].calls[i].step = "download" /\ cv[r].calls[i].kind # "ok"
    /\ reaper[r].pc = "done"
    /\ reaper[r].log = "deleted"

\* request r is in the retry loop of lines 152-223
InLoop(r) == cv[r].pc \notin { "idle", "done" }

\* C18: a Convert that entered the retry loop makes at most 3 attempts and
\* comes to answer; its answer is one of success, 400, 429 and 500, it has
\* none before, and once given the answer never changes.
C18_ConvertTerminates ==
  /\ [] ( \A r \in Requests :
            /\ cv[r].attempt <= 2
            /\ \A i \in DOMAIN cv[r].calls : cv[r].calls[i].attempt <= 2
            /\ cv[r].pc = "done" => cv[r].resp.status \in { 200, 400, 429, 500 }
            /\ cv[r].pc # "done" => cv[r].resp.status = 0 )
  /\ [][ \A r \in Requests : cv[r].pc = "done" => cv'[r] = cv[r] ]_vars
  /\ \A r \in Requests : InLoop(r) ~> ( cv[r].pc = "done" )

C18_Witness ==
  \E r \in Requests :
    /\ cv[r].pc = "done"
    /\ cv[r].resp.status = 500
    /\ cv[r].attempt = 2
    /\ \E i \in DOMAIN cv[r].calls : cv[r].calls[i].kind = "DownloadError"
    /\ \E i \in DOMAIN cv[r].calls : cv[r].calls[i].step = "download"

====
